---- MODULE Spec2Model ----
(***************************************************************************)
(* A model of vkutils.cc: physical device scoring and selection, the       *)
(* merge of two specialization tables, and the QueueClosure one-submit     *)
(* begin/finish protocol over a model of the Vulkan host objects it uses.  *)
(***************************************************************************)
EXTENDS Integers, Sequences, FiniteSets, TLC

(***************************************************************************)
(* Bounds of the model.                                                    *)
(***************************************************************************)
\* queue families per enumerated device (score specification)
MaxFamilies == 2
\* queues per queue family
MaxQueueCount == 1
\* devices in the list handed to select_physical_device
MaxDevices == 3
\* map entries of the two specialization tables of a merge, taken together
MaxEntries == 3
\* calls of beginOneSubmitCommands in one run of the closure
MaxBegins == 2

(***************************************************************************)
(* Vulkan values used by the code.                                         *)
(***************************************************************************)
VK_NULL_HANDLE == 0
VK_SUCCESS == 0
VK_ERROR_OUT_OF_HOST_MEMORY == -1
VK_ERROR_DEVICE_LOST == -4
VK_QUEUE_GRAPHICS_BIT == 1
VK_QUEUE_COMPUTE_BIT == 2
VK_QUEUE_TRANSFER_BIT == 4

DeviceTypes == {"OTHER", "INTEGRATED_GPU", "DISCRETE_GPU", "VIRTUAL_GPU", "CPU"}

\* uint32_t bitwise and / or, bit by bit
RECURSIVE BitAnd(_, _)
BitAnd(x, y) ==
    IF x = 0 \/ y = 0 THEN 0
    ELSE (x % 2) * (y % 2) + 2 * BitAnd(x \div 2, y \div 2)

RECURSIVE BitOr(_, _)
BitOr(x, y) ==
    IF x = 0 THEN y
    ELSE IF y = 0 THEN x
    ELSE (IF x % 2 = 1 \/ y % 2 = 1 THEN 1 ELSE 0) + 2 * BitOr(x \div 2, y \div 2)

(***************************************************************************)
(* What the host API reports for a physical device: its type, a feature    *)
(* bitset, and its queue families (capability flags, number of queues).    *)
(***************************************************************************)
QueueFlagSet ==
    { VK_QUEUE_GRAPHICS_BIT, VK_QUEUE_COMPUTE_BIT, VK_QUEUE_TRANSFER_BIT,
      BitOr(VK_QUEUE_GRAPHICS_BIT, VK_QUEUE_COMPUTE_BIT) }

QueueFamilySet == [queueFlags : QueueFlagSet, queueCount : 0..MaxQueueCount]

FamilyLists == UNION { [1..n -> QueueFamilySet] : n \in 0..MaxFamilies }

FeatureSet == {0, 1}

DeviceSet == [deviceType : DeviceTypes, features : FeatureSet, queueFamilies : FamilyLists]

\* the loop of confirm_queue_fam over the families from index i on
RECURSIVE QueueFamLoop(_, _, _, _)
QueueFamLoop(queueProperties, aBitmask, i, maskResult) ==
    IF i > Len(queueProperties) THEN maskResult
    ELSE QueueFamLoop(queueProperties, aBitmask, i + 1,
            IF queueProperties[i].queueCount > 0
            THEN BitOr(maskResult, BitAnd(aBitmask, queueProperties[i].queueFlags))
            ELSE maskResult)

confirm_queue_fam(aDevice, aBitmask) ==
    QueueFamLoop(aDevice.queueFamilies, aBitmask, 1, 0) = aBitmask

TypeScore(deviceType) ==
    CASE deviceType = "OTHER"          -> 0
      [] deviceType = "INTEGRATED_GPU" -> 2000
      [] deviceType = "DISCRETE_GPU"   -> 4000
      [] deviceType = "VIRTUAL_GPU"    -> 3000
      [] deviceType = "CPU"            -> 1000
      [] OTHER                         -> 0

\* a scorer whose result also counts the feature bits
score_with_features(aDevice) ==
    IF confirm_queue_fam(aDevice, BitOr(VK_QUEUE_GRAPHICS_BIT, VK_QUEUE_COMPUTE_BIT))
    THEN TypeScore(aDevice.deviceType) + 1500 * aDevice.features
    ELSE -1

score_physical_device(aDevice) ==
    IF confirm_queue_fam(aDevice, BitOr(VK_QUEUE_GRAPHICS_BIT, VK_QUEUE_COMPUTE_BIT))
    THEN TypeScore(aDevice.deviceType)
    ELSE -1

\* a running maximum that lets a later device of equal score win
RECURSIVE SelectLoopLast(_, _, _, _)
SelectLoopLast(devs, i, high_score, max_index) ==
    IF i > Len(devs) THEN [high_score |-> high_score, max_index |-> max_index]
    ELSE IF score_physical_device(devs[i]) >= high_score
         THEN SelectLoopLast(devs, i + 1, score_physical_device(devs[i]), i)
         ELSE SelectLoopLast(devs, i + 1, high_score, max_index)

\* the loop of select_physical_device from position i on; positions are 1-based here,
\* and the handle of the device at position i is i
RECURSIVE SelectLoop(_, _, _, _)
SelectLoop(devs, i, high_score, max_index) ==
    IF i > Len(devs) THEN [high_score |-> high_score, max_index |-> max_index]
    ELSE IF score_physical_device(devs[i]) > high_score
         THEN SelectLoop(devs, i + 1, score_physical_device(devs[i]), i)
         ELSE SelectLoop(devs, i + 1, high_score, max_index)

\* a selector that returns the device at max_index whatever the best score
select_no_sentinel(devs) ==
    IF Len(devs) > 0 THEN SelectLoop(devs, 1, -1, 1).max_index ELSE VK_NULL_HANDLE

select_physical_device(devs) ==
    LET r == SelectLoop(devs, 1, -1, 1) IN
    IF r.high_score >= 0 THEN r.max_index ELSE VK_NULL_HANDLE

(***************************************************************************)
(* Sizes and offsets.  A uint32_t or size_t value v is held as two limbs,   *)
(* v = hi * 2^16 + lo, so that values around 2^32 stay exact.              *)
(***************************************************************************)
Limb == 2 ^ 16

Num(hi, lo) == [hi |-> hi, lo |-> lo]

Add(x, y) ==
    [hi |-> x.hi + y.hi + ((x.lo + y.lo) \div Limb), lo |-> (x.lo + y.lo) % Limb]

Less(x, y) == x.hi < y.hi \/ (x.hi = y.hi /\ x.lo < y.lo)

Leq(x, y) == x = y \/ Less(x, y)

\* static_cast<uint32_t> and uint32_t arithmetic: the value modulo 2^32
ToUint32(x) == [hi |-> x.hi % Limb, lo |-> x.lo]

(***************************************************************************)
(* A specialization table: pMapEntries is the sequence of map entries      *)
(* (constantID, offset, size); pData is the data blob, held as a sequence  *)
(* of runs, a run being count copies of one byte value.  mapEntryCount is  *)
(* Len(pMapEntries) and dataSize is the number of bytes of pData.          *)
(***************************************************************************)
Run(byte, count) == [byte |-> byte, count |-> count]

RECURSIVE BlobSize(_)
BlobSize(runs) ==
    IF runs = <<>> THEN Num(0, 0) ELSE Add(runs[1].count, BlobSize(Tail(runs)))

\* the byte at index i (0-based) of a blob whose first run starts at index start
RECURSIVE ByteFrom(_, _, _)
ByteFrom(runs, start, i) ==
    IF runs = <<>> THEN -1
    ELSE IF Less(i, Add(start, runs[1].count)) THEN runs[1].byte
    ELSE ByteFrom(Tail(runs), Add(start, runs[1].count), i)

ByteAt(runs, i) == ByteFrom(runs, Num(0, 0), i)

\* the indices at which the runs of a blob start, the blob starting at index start
RECURSIVE RunStarts(_, _)
RunStarts(runs, start) ==
    IF runs = <<>> THEN {}
    ELSE {start} \cup RunStarts(Tail(runs), Add(start, runs[1].count))

\* the lambda addOffset
AddOffset(entry, additionalOffset) ==
    [constantID |-> entry.constantID,
     offset |-> ToUint32(Add(entry.offset, additionalOffset)),
     size |-> entry.size]

\* a merge that shifts B's entries by the size of B's data
concat_shift_by_b(a, b) ==
    [first |-> a.pMapEntries \o
                 [j \in 1..Len(b.pMapEntries) |->
                     AddOffset(b.pMapEntries[j], ToUint32(BlobSize(b.pData)))],
     second |-> a.pData \o b.pData]

\* a merge that shifts B's entries but leaves B's bytes out of the data
concat_drops_b_data(a, b) ==
    [first |-> a.pMapEntries \o
                 [j \in 1..Len(b.pMapEntries) |->
                     AddOffset(b.pMapEntries[j], ToUint32(BlobSize(a.pData)))],
     second |-> a.pData]

\* the pair (entries, data) returned by concat_specialization_info
concat_specialization_info(a, b) ==
    LET additionalOffset == ToUint32(BlobSize(a.pData))
    IN  [first |-> a.pMapEntries \o
                     [j \in 1..Len(b.pMapEntries) |->
                         AddOffset(b.pMapEntries[j], additionalOffset)],
         second |-> a.pData \o b.pData]

\* what the call leaves in its out parameter
OutInfo(pair) ==
    [mapEntryCount |-> Len(pair.first), dataSize |-> BlobSize(pair.second)]

(***************************************************************************)
(* QueueClosure over the Vulkan host objects it uses.  The operators below *)
(* take and return a record st:                                            *)
(*   livePools, deadPools   command pools that exist / have been destroyed *)
(*   cmds                   command buffer handle -> [pool, state]; state  *)
(*                          is "initial", "recording", "executable",       *)
(*                          "pending", "invalid" (executed) or "freed"     *)
(*   hazards                uses of the API outside its valid usage        *)
(*   mCommandPool, mCmdPoolInternal   the closure's two private fields     *)
(*   calls                  the calls made by the running member function  *)
(*   status                 "running", "aborted" (failed assertion) or     *)
(*                          "crashed" (undefined behaviour took the        *)
(*                          process down)                                  *)
(*   ndebug                 whether the build defines NDEBUG               *)
(*   ubCrashes              whether, on this platform, a use of the API    *)
(*                          outside its valid usage takes the process down *)
(*   submission             the VkSubmitInfo and fence of the last         *)
(*                          vkQueueSubmit                                  *)
(*   cmdBuffer, result      locals of the running member function          *)
(***************************************************************************)
Call(api, arg, result) == [api |-> api, arg |-> arg, result |-> result]

Log(st, api, arg, result) == [st EXCEPT !.calls = Append(@, Call(api, arg, result))]

Running(st) == st.status = "running"

\* a call outside the valid usage of the API: undefined behaviour, which either
\* takes the process down or lets the call go on
Hazard(st, tag) ==
    [st EXCEPT !.hazards = @ \cup {tag},
               !.status = IF st.ubCrashes THEN "crashed" ELSE @]

\* the macro ASSERT_VK_SUCCESS of vkutils.h: fatal unless the result is VK_SUCCESS
ASSERT_VK_SUCCESS(st, result) ==
    IF result = VK_SUCCESS THEN st ELSE [st EXCEPT !.status = "aborted"]

\* assert() of <cassert>: aborts on a false condition unless NDEBUG is defined
CAssert(st, cond) ==
    IF cond \/ st.ndebug THEN st ELSE [st EXCEPT !.status = "aborted"]

AllPools(st) == st.livePools \cup st.deadPools

FreshPool(st) ==
    1 + Cardinality(AllPools(st))

FreshCmd(st) == 1 + Cardinality(DOMAIN st.cmds)

\* lines 140-149: the pool created when the caller passes no pool
CreateInternalPool(st, result) ==
    LET s1 == [st EXCEPT !.mCmdPoolInternal = TRUE]
        s2 == IF result = VK_SUCCESS
              THEN [s1 EXCEPT !.livePools = @ \cup {FreshPool(st)},
                              !.mCommandPool = FreshPool(st)]
              ELSE s1
        s3 == Log(s2, "vkCreateCommandPool",
                  IF result = VK_SUCCESS THEN FreshPool(st) ELSE VK_NULL_HANDLE, result)
    IN  CAssert(s3, result = VK_SUCCESS)

\* vkAllocateCommandBuffers of one primary command buffer from pool
AllocateCommandBuffer(st, pool, result) ==
    IF ~Running(st) THEN st
    ELSE IF pool \notin st.livePools
    THEN LET s1 == Hazard(Log(st, "vkAllocateCommandBuffers", pool,
                              VK_ERROR_OUT_OF_HOST_MEMORY), "allocate from no pool")
         IN  IF Running(s1) THEN ASSERT_VK_SUCCESS(s1, VK_ERROR_OUT_OF_HOST_MEMORY) ELSE s1
    ELSE IF result # VK_SUCCESS
    THEN ASSERT_VK_SUCCESS(Log(st, "vkAllocateCommandBuffers", pool, result), result)
    ELSE Log([st EXCEPT !.cmds = (FreshCmd(st) :> [pool |-> pool, state |-> "initial"]) @@ @,
                        !.cmdBuffer = FreshCmd(st)],
             "vkAllocateCommandBuffers", pool, result)

\* vkBeginCommandBuffer(cmdBuffer, one-time submit)
BeginCommandBuffer(st, cmd, result) ==
    IF ~Running(st) THEN st
    ELSE IF result # VK_SUCCESS
    THEN ASSERT_VK_SUCCESS(Log(st, "vkBeginCommandBuffer", cmd, result), result)
    ELSE Log([st EXCEPT !.cmds[cmd].state = "recording"], "vkBeginCommandBuffer", cmd, result)

\* a begin that keeps the caller's pool in the closure's own pool field
beginKeepsCallerPool(st, aCommandPool, poolResult, allocResult, beginResult) ==
    LET s0 == [st EXCEPT !.calls = <<>>, !.cmdBuffer = VK_NULL_HANDLE]
        s1 == IF aCommandPool = VK_NULL_HANDLE THEN CreateInternalPool(s0, poolResult)
              ELSE [s0 EXCEPT !.mCommandPool = aCommandPool]
        s2 == AllocateCommandBuffer(s1, s1.mCommandPool, allocResult)
    IN  BeginCommandBuffer(s2, s2.cmdBuffer, beginResult)

\* QueueClosure::beginOneSubmitCommands; the three results are those of pool
\* creation, of command buffer allocation and of vkBeginCommandBuffer
beginOneSubmitCommands(st, aCommandPool, poolResult, allocResult, beginResult) ==
    LET s0 == [st EXCEPT !.calls = <<>>, !.cmdBuffer = VK_NULL_HANDLE]
        s1 == IF aCommandPool = VK_NULL_HANDLE THEN CreateInternalPool(s0, poolResult)
              ELSE s0
        pool == IF aCommandPool = VK_NULL_HANDLE THEN s1.mCommandPool ELSE aCommandPool
        s2 == AllocateCommandBuffer(s1, pool, allocResult)
    IN  BeginCommandBuffer(s2, s2.cmdBuffer, beginResult)

\* vkEndCommandBuffer
EndCommandBuffer(st, cmd, result) ==
    IF ~Running(st) THEN st
    ELSE IF cmd \notin DOMAIN st.cmds \/ st.cmds[cmd].state # "recording"
    THEN Hazard(Log(st, "vkEndCommandBuffer", cmd, result), "end of a lost buffer")
    ELSE IF result # VK_SUCCESS
    THEN Log(st, "vkEndCommandBuffer", cmd, result)
    ELSE Log([st EXCEPT !.cmds[cmd].state = "executable"], "vkEndCommandBuffer", cmd, result)

\* lines 185-191: the VkSubmitInfo that finish builds
BuildSubmission(aCmdBuffer, aWaitSemaphores, aSignalSemaphores) ==
    [pCommandBuffers |-> <<aCmdBuffer>>,
     pWaitSemaphores |-> aWaitSemaphores,
     pSignalSemaphores |-> aSignalSemaphores]

\* vkQueueSubmit(mQueue, 1, &info, aFence): the command buffers of info go to the queue
QueueSubmit(st, info, aFence, result) ==
    IF ~Running(st) THEN st
    ELSE LET cmd == info.pCommandBuffers[1]
             s1 == [Log(st, "vkQueueSubmit", cmd, result)
                       EXCEPT !.result = result,
                              !.submission = [pCommandBuffers |-> info.pCommandBuffers,
                                              pWaitSemaphores |-> info.pWaitSemaphores,
                                              pSignalSemaphores |-> info.pSignalSemaphores,
                                              fence |-> aFence]]
         IN  IF cmd \notin DOMAIN st.cmds \/ st.cmds[cmd].state # "executable"
             THEN Hazard(s1, "submit of a lost buffer")
             ELSE IF result # VK_SUCCESS THEN s1
             ELSE [s1 EXCEPT !.cmds[cmd].state = "pending"]

\* vkQueueWaitIdle: returns once everything submitted to the queue has executed
QueueWaitIdle(st) ==
    IF ~Running(st) THEN st
    ELSE Log([st EXCEPT !.cmds = [c \in DOMAIN @ |->
                                    IF @[c].state = "pending"
                                    THEN [@[c] EXCEPT !.state = "invalid"] ELSE @[c]]],
             "vkQueueWaitIdle", VK_NULL_HANDLE, VK_SUCCESS)

\* vkFreeCommandBuffers(device, pool, 1, &cmd)
FreeCommandBuffers(st, pool, cmd) ==
    IF ~Running(st) THEN st
    ELSE LET s1 == Log(st, "vkFreeCommandBuffers", cmd, VK_SUCCESS)
             bad == ( IF pool \notin st.livePools THEN {"free from no pool"} ELSE {} )
                    \cup ( IF cmd \notin DOMAIN st.cmds \/ st.cmds[cmd].state = "freed"
                           THEN {"free of a lost buffer"}
                           ELSE ( IF st.cmds[cmd].pool # pool
                                  THEN {"free from another pool"} ELSE {} )
                                \cup ( IF st.cmds[cmd].state = "pending"
                                       THEN {"free while pending"} ELSE {} ) )
             s2 == IF cmd \in DOMAIN st.cmds
                   THEN [s1 EXCEPT !.cmds[cmd].state = "freed"] ELSE s1
         IN  IF bad = {} THEN s2
             ELSE [s2 EXCEPT !.hazards = @ \cup bad,
                             !.status = IF st.ubCrashes THEN "crashed" ELSE @]

\* vkDestroyCommandPool: the pool and every command buffer allocated from it go
DestroyCommandPool(st, pool) ==
    IF ~Running(st) THEN st
    ELSE LET s1 == Log(st, "vkDestroyCommandPool", pool, VK_SUCCESS)
             bad == ( IF pool \notin st.livePools THEN {"destroy of no pool"} ELSE {} )
                    \cup ( IF \E c \in DOMAIN st.cmds :
                                st.cmds[c].pool = pool /\ st.cmds[c].state = "pending"
                           THEN {"destroy while pending"} ELSE {} )
             s2 == [s1 EXCEPT !.livePools = @ \ {pool},
                              !.deadPools = IF pool \in st.livePools THEN @ \cup {pool} ELSE @,
                              !.cmds = [c \in DOMAIN @ |->
                                          IF @[c].pool = pool
                                          THEN [@[c] EXCEPT !.state = "freed"] ELSE @[c]]]
         IN  IF bad = {} THEN s2
             ELSE [s2 EXCEPT !.hazards = @ \cup bad,
                             !.status = IF st.ubCrashes THEN "crashed" ELSE @]

\* a cleanup that leaves the flag as it was
cleanupKeepsFlag(st, aCmdBuffer) ==
    IF ~Running(st) THEN st
    ELSE LET s0 == Log(st, "_cleanupSubmit", aCmdBuffer, VK_SUCCESS)
             s1 == IF aCmdBuffer # VK_NULL_HANDLE /\ s0.mCmdPoolInternal
                   THEN FreeCommandBuffers(s0, s0.mCommandPool, aCmdBuffer) ELSE s0
         IN  IF s1.mCommandPool # VK_NULL_HANDLE
             THEN [DestroyCommandPool(s1, s1.mCommandPool) EXCEPT !.mCommandPool = VK_NULL_HANDLE]
             ELSE s1

\* QueueClosure::_cleanupSubmit
cleanupSubmit(st, aCmdBuffer) ==
    IF ~Running(st) THEN st
    ELSE LET s0 == Log(st, "_cleanupSubmit", aCmdBuffer, VK_SUCCESS)
             s1 == IF aCmdBuffer # VK_NULL_HANDLE /\ s0.mCmdPoolInternal
                   THEN FreeCommandBuffers(s0, s0.mCommandPool, aCmdBuffer) ELSE s0
             s2 == IF s1.mCommandPool # VK_NULL_HANDLE
                   THEN [DestroyCommandPool(s1, s1.mCommandPool)
                            EXCEPT !.mCommandPool = VK_NULL_HANDLE]
                   ELSE s1
         IN  [s2 EXCEPT !.mCmdPoolInternal = FALSE]

\* the first statements of finish: vkEndCommandBuffer under ASSERT_VK_SUCCESS, then
\* the submission built around aCmdBuffer
EndAndBuild(st, aCmdBuffer, aWaitSemaphores, aSignalSemaphores, endResult) ==
    LET s0 == [st EXCEPT !.calls = <<>>, !.result = VK_SUCCESS]
        e  == EndCommandBuffer(s0, aCmdBuffer, endResult)
        s1 == IF Running(e) THEN ASSERT_VK_SUCCESS(e, endResult) ELSE e
    IN  IF Running(s1)
        THEN Log(s1, "VkSubmitInfo",
                 BuildSubmission(aCmdBuffer, aWaitSemaphores, aSignalSemaphores), VK_SUCCESS)
        ELSE s1

\* a finish that returns early, without cleanup, when the submit fails
finishSkipsCleanupOnError(st, aCmdBuffer, aWaitSemaphores, aSignalSemaphores, aFence, aShouldWait, endResult, submitResult) ==
    LET s1 == EndAndBuild(st, aCmdBuffer, aWaitSemaphores, aSignalSemaphores, endResult)
        s2 == QueueSubmit(s1, BuildSubmission(aCmdBuffer, aWaitSemaphores,
                                              aSignalSemaphores), aFence, submitResult)
        s3 == IF Running(s2) /\ s2.result = VK_SUCCESS /\ aShouldWait
                 /\ aFence = VK_NULL_HANDLE
              THEN QueueWaitIdle(s2) ELSE s2
    IN  IF s2.result = VK_SUCCESS THEN cleanupSubmit(s3, aCmdBuffer) ELSE s3

\* a finish that waits for the queue whenever the caller asked for it
finishWaitsDespiteFence(st, aCmdBuffer, aWaitSemaphores, aSignalSemaphores, aFence, aShouldWait, endResult, submitResult) ==
    LET s1 == EndAndBuild(st, aCmdBuffer, aWaitSemaphores, aSignalSemaphores, endResult)
        s2 == QueueSubmit(s1, BuildSubmission(aCmdBuffer, aWaitSemaphores,
                                              aSignalSemaphores), aFence, submitResult)
        s3 == IF Running(s2) /\ s2.result = VK_SUCCESS /\ aShouldWait
              THEN QueueWaitIdle(s2) ELSE s2
    IN  cleanupSubmit(s3, aCmdBuffer)

\* a finish that builds and submits first and ends the recording afterwards
finishSubmitsBeforeEnd(st, aCmdBuffer, aWaitSemaphores, aSignalSemaphores, aFence, aShouldWait, endResult, submitResult) ==
    LET s0 == [st EXCEPT !.calls = <<>>, !.result = VK_SUCCESS]
        s1 == Log(s0, "VkSubmitInfo",
                  BuildSubmission(aCmdBuffer, aWaitSemaphores, aSignalSemaphores), VK_SUCCESS)
        s2 == QueueSubmit(s1, BuildSubmission(aCmdBuffer, aWaitSemaphores,
                                              aSignalSemaphores), aFence, submitResult)
        e  == EndCommandBuffer(s2, aCmdBuffer, endResult)
        s3 == IF Running(e) THEN ASSERT_VK_SUCCESS(e, endResult) ELSE e
        s4 == IF Running(s3) /\ s3.result = VK_SUCCESS /\ aShouldWait
                 /\ aFence = VK_NULL_HANDLE
              THEN QueueWaitIdle(s3) ELSE s3
    IN  cleanupSubmit(s4, aCmdBuffer)

\* QueueClosure::finishOneSubmitCommands, the five-argument overload; the two results
\* are those of vkEndCommandBuffer and of vkQueueSubmit
finishOneSubmitCommands(st, aCmdBuffer, aWaitSemaphores, aSignalSemaphores, aFence, aShouldWait, endResult, submitResult) ==
    LET s1 == EndAndBuild(st, aCmdBuffer, aWaitSemaphores, aSignalSemaphores, endResult)
        s2 == QueueSubmit(s1, BuildSubmission(aCmdBuffer, aWaitSemaphores,
                                              aSignalSemaphores), aFence, submitResult)
        s3 == IF Running(s2) /\ s2.result = VK_SUCCESS /\ aShouldWait
                 /\ aFence = VK_NULL_HANDLE
              THEN QueueWaitIdle(s2) ELSE s2
    IN  cleanupSubmit(s3, aCmdBuffer)

\* QueueClosure::finishOneSubmitCommands, the three-argument overload
finishOneSubmitCommands3(st, aCmdBuffer, aFence, aShouldWait, endResult, submitResult) ==
    finishOneSubmitCommands(st, aCmdBuffer, <<>>, <<>>, aFence, aShouldWait,
                            endResult, submitResult)

(***************************************************************************)
(* State.                                                                  *)
(***************************************************************************)
VARIABLES
    aDevice,     \* score: the device under query
    score,       \* score: the value returned by score_physical_device
    scorePc,     \* score: "call" before the call, "returned" after
    aDevices,    \* select: the device list; the device at position i has handle i
    selected,    \* select: the handle returned, VK_NULL_HANDLE for none
    selectPc,    \* select: "call" before the call, "returned" after
    a,           \* merge: the first specialization table
    b,           \* merge: the second specialization table
    merged,      \* merge: the pair (entries, data) returned
    out,         \* merge: the counts written to the out parameter
    mergePc,     \* merge: "call" before the call, "returned" after
    livePools,   \* host: the command pools that exist
    deadPools,   \* host: the command pools that have been destroyed
    cmds,        \* host: command buffer handle -> [pool, state]
    hazards,     \* host: the uses of the API outside its valid usage so far
    mCommandPool,      \* closure: _mCommandPool
    mCmdPoolInternal,  \* closure: _mCmdPoolInternal
    calls,       \* the calls made by the member function that ran last
    submission,  \* the VkSubmitInfo and fence of the last vkQueueSubmit
    ret,         \* the last return of begin or finish, with the arguments of the call
    status,      \* "running", "aborted" or "crashed"
    ndebug,      \* the build: whether NDEBUG is defined
    ubCrashes,   \* the platform: whether an invalid use of the API crashes
    outstanding, \* caller: handles returned by begin and not yet given to finish
    cycle        \* caller: for each handle, the pool argument of its begin, the pool
                 \* that begin created (if any) and the calls that begin made

scoreVars == <<aDevice, score, scorePc>>
selectVars == <<aDevices, selected, selectPc>>
mergeVars == <<a, b, merged, out, mergePc>>
hostVars == <<livePools, deadPools, cmds, hazards>>
closureVars == <<hostVars, mCommandPool, mCmdPoolInternal, calls, submission, ret,
                 status, ndebug, ubCrashes, outstanding, cycle>>
vars == <<scoreVars, selectVars, mergeVars, closureVars>>

ScoreIdle == aDevice = [deviceType |-> "OTHER", features |-> 0, queueFamilies |-> <<>>]
             /\ score = 0 /\ scorePc = "off"
SelectIdle == aDevices = <<>> /\ selected = VK_NULL_HANDLE /\ selectPc = "off"
EmptyTable == [pMapEntries |-> <<>>, pData |-> <<>>]
NoPair == [first |-> <<>>, second |-> <<>>]
MergeIdle == a = EmptyTable /\ b = EmptyTable /\ merged = NoPair
             /\ out = OutInfo(NoPair) /\ mergePc = "off"

\* the pools the caller owns and may pass to begin
ExternalPools == {1}
NoSubmission == [pCommandBuffers |-> <<>>, pWaitSemaphores |-> <<>>,
                 pSignalSemaphores |-> <<>>, fence |-> VK_NULL_HANDLE]
NoReturn == [op |-> "none", overload |-> 0, cmd |-> VK_NULL_HANDLE,
             aFence |-> VK_NULL_HANDLE, aShouldWait |-> FALSE, value |-> VK_SUCCESS]
\* a closure as constructed: no pool held, nothing begun
ClosureConstructed ==
    /\ livePools = ExternalPools /\ deadPools = {} /\ cmds = <<>> /\ hazards = {}
    /\ mCommandPool = VK_NULL_HANDLE /\ mCmdPoolInternal = FALSE
    /\ calls = <<>> /\ submission = NoSubmission /\ ret = NoReturn
    /\ outstanding = {} /\ cycle = <<>>
ClosureIdle == ClosureConstructed /\ status = "off" /\ ndebug = FALSE
               /\ ubCrashes = FALSE

(***************************************************************************)
(* score_physical_device on every device of DeviceSet.                     *)
(***************************************************************************)
InitScore ==
    /\ aDevice \in DeviceSet
    /\ score = 0
    /\ scorePc = "call"
    /\ SelectIdle
    /\ MergeIdle
    /\ ClosureIdle

ScorePhysicalDevice ==
    /\ scorePc = "call"
    /\ score' = score_physical_device(aDevice)
    /\ scorePc' = "returned"
    /\ UNCHANGED <<aDevice, selectVars, mergeVars, closureVars>>

NextScore == ScorePhysicalDevice

SpecScore == InitScore /\ [][NextScore]_vars

(***************************************************************************)
(* select_physical_device on device lists.  The lists are drawn from a     *)
(* catalogue of queue family layouts: none, one graphics+compute family,   *)
(* graphics only, graphics+compute without queues, and graphics and        *)
(* compute on two different families.                                      *)
(***************************************************************************)
Fam(flags, count) == [queueFlags |-> flags, queueCount |-> count]

SelectFamilyLists ==
    { <<>>,
      <<Fam(BitOr(VK_QUEUE_GRAPHICS_BIT, VK_QUEUE_COMPUTE_BIT), 1)>>,
      <<Fam(VK_QUEUE_GRAPHICS_BIT, 1)>>,
      <<Fam(BitOr(VK_QUEUE_GRAPHICS_BIT, VK_QUEUE_COMPUTE_BIT), 0)>>,
      <<Fam(VK_QUEUE_GRAPHICS_BIT, 1), Fam(VK_QUEUE_COMPUTE_BIT, 1)>> }

SelectDeviceSet ==
    [deviceType : DeviceTypes, features : {0}, queueFamilies : SelectFamilyLists]

InitSelect ==
    /\ aDevices \in UNION { [1..n -> SelectDeviceSet] : n \in 0..MaxDevices }
    /\ selected = VK_NULL_HANDLE
    /\ selectPc = "call"
    /\ ScoreIdle
    /\ MergeIdle
    /\ ClosureIdle

SelectPhysicalDevice ==
    /\ selectPc = "call"
    /\ selected' = select_physical_device(aDevices)
    /\ selectPc' = "returned"
    /\ UNCHANGED <<aDevices, scoreVars, mergeVars, closureVars>>

NextSelect == SelectPhysicalDevice

SpecSelect == InitSelect /\ [][NextSelect]_vars

(***************************************************************************)
(* concat_specialization_info on pairs of tables.  The blobs come from a   *)
(* catalogue that reaches from the empty blob to blobs of 2^32 - 4 and     *)
(* 2^32 bytes; every entry of a table lies within the table's blob.        *)
(***************************************************************************)
BlobSet ==
    { <<>>,
      <<Run(170, Num(0, 4))>>,
      <<Run(187, Num(0, 8))>>,
      <<Run(170, Num(0, 4)), Run(187, Num(0, 4))>>,
      <<Run(170, Num(Limb - 1, Limb - 4))>>,
      <<Run(187, Num(Limb, 0))>> }

EntrySet ==
    [constantID : {0, 1}, offset : {Num(0, 0), Num(0, 4)}, size : {Num(0, 4), Num(0, 8)}]

InBlob(entry, runs) == Leq(Add(entry.offset, entry.size), BlobSize(runs))

TablesOfLen(n) ==
    { t \in [pMapEntries : [1..n -> EntrySet], pData : BlobSet] :
        \A k \in 1..n : InBlob(t.pMapEntries[k], t.pData) }

InitMerge ==
    /\ \E na \in 0..MaxEntries : \E nb \in 0..(MaxEntries - na) :
          /\ a \in TablesOfLen(na)
          /\ b \in TablesOfLen(nb)
    /\ merged = NoPair
    /\ out = OutInfo(NoPair)
    /\ mergePc = "call"
    /\ ScoreIdle
    /\ SelectIdle
    /\ ClosureIdle

ConcatSpecializationInfo ==
    /\ mergePc = "call"
    /\ merged' = concat_specialization_info(a, b)
    /\ out' = OutInfo(concat_specialization_info(a, b))
    /\ mergePc' = "returned"
    /\ UNCHANGED <<a, b, scoreVars, selectVars, closureVars>>

NextMerge == ConcatSpecializationInfo

SpecMerge == InitMerge /\ [][NextMerge]_vars

(***************************************************************************)
(* One QueueClosure, its caller and the device.  The caller passes to      *)
(* finish only handles that begin returned; the device finishes pending    *)
(* work at any time.                                                       *)
(***************************************************************************)
Results == {VK_SUCCESS, VK_ERROR_OUT_OF_HOST_MEMORY}
SubmitResults == {VK_SUCCESS, VK_ERROR_OUT_OF_HOST_MEMORY, VK_ERROR_DEVICE_LOST}
Fences == {VK_NULL_HANDLE, 1}
SemaphoreLists == {<<>>, <<1>>}

\* the record the member functions work on, for one call
Cur ==
    [livePools |-> livePools, deadPools |-> deadPools, cmds |-> cmds,
     hazards |-> hazards, mCommandPool |-> mCommandPool,
     mCmdPoolInternal |-> mCmdPoolInternal, calls |-> calls, status |-> status,
     ndebug |-> ndebug, ubCrashes |-> ubCrashes, submission |-> submission,
     cmdBuffer |-> VK_NULL_HANDLE, result |-> VK_SUCCESS]

Install(r) ==
    /\ livePools' = r.livePools
    /\ deadPools' = r.deadPools
    /\ cmds' = r.cmds
    /\ hazards' = r.hazards
    /\ mCommandPool' = r.mCommandPool
    /\ mCmdPoolInternal' = r.mCmdPoolInternal
    /\ calls' = r.calls
    /\ submission' = r.submission
    /\ status' = r.status

Called(log, api) == \E k \in 1..Len(log) : log[k].api = api

InitClosure ==
    /\ ClosureConstructed
    /\ status = "running"
    /\ ndebug \in BOOLEAN
    /\ ubCrashes \in BOOLEAN
    /\ ScoreIdle
    /\ SelectIdle
    /\ MergeIdle

Begin ==
    /\ status = "running"
    /\ Cardinality(DOMAIN cmds) < MaxBegins
    /\ \E aCommandPool \in {VK_NULL_HANDLE} \cup ExternalPools :
       \E poolResult \in Results, allocResult \in Results, beginResult \in Results :
          LET r == beginOneSubmitCommands(Cur, aCommandPool, poolResult,
                                          allocResult, beginResult)
          IN  /\ Install(r)
              /\ IF Running(r)
                 THEN /\ outstanding' = outstanding \cup {r.cmdBuffer}
                      /\ cycle' = (r.cmdBuffer :>
                                     [aCommandPool |-> aCommandPool,
                                      created |-> IF Called(r.calls, "vkCreateCommandPool")
                                                     /\ r.calls[1].result = VK_SUCCESS
                                                  THEN r.calls[1].arg ELSE VK_NULL_HANDLE,
                                      calls |-> r.calls]) @@ cycle
                      /\ ret' = [NoReturn EXCEPT !.op = "begin", !.cmd = r.cmdBuffer,
                                                 !.value = r.cmdBuffer]
                 ELSE /\ ret' = NoReturn
                      /\ UNCHANGED <<outstanding, cycle>>
    /\ UNCHANGED <<ndebug, ubCrashes, scoreVars, selectVars, mergeVars>>

\* the results of vkEndCommandBuffer and vkQueueSubmit in one call of finish; after
\* a failed vkEndCommandBuffer there is no submit
FinishResults ==
    { <<VK_SUCCESS, r>> : r \in SubmitResults } \cup { <<r, VK_SUCCESS>> : r \in Results }

\* what a call of finish that leaves r behind does to the caller's side
Finished(r, overload, aCmdBuffer, aFence, aShouldWait) ==
    /\ Install(r)
    /\ outstanding' = outstanding \ {aCmdBuffer}
    /\ ret' = IF Running(r)
              THEN [op |-> "finish", overload |-> overload, cmd |-> aCmdBuffer,
                    aFence |-> aFence, aShouldWait |-> aShouldWait, value |-> r.result]
              ELSE NoReturn
    /\ UNCHANGED <<cycle, ndebug, ubCrashes, scoreVars, selectVars, mergeVars>>

\* finish through the five-argument overload, the semaphore lists empty or not
Finish ==
    /\ status = "running"
    /\ \E aCmdBuffer \in outstanding :
       \E aWaitSemaphores \in SemaphoreLists, aSignalSemaphores \in SemaphoreLists :
       \E aFence \in Fences, aShouldWait \in BOOLEAN :
       \E res \in FinishResults :
          Finished(finishOneSubmitCommands(Cur, aCmdBuffer, aWaitSemaphores,
                                           aSignalSemaphores, aFence, aShouldWait,
                                           res[1], res[2]),
                   5, aCmdBuffer, aFence, aShouldWait)

\* finish through the three-argument overload
Finish3 ==
    /\ status = "running"
    /\ \E aCmdBuffer \in outstanding :
       \E aFence \in Fences, aShouldWait \in BOOLEAN :
       \E res \in FinishResults :
          Finished(finishOneSubmitCommands3(Cur, aCmdBuffer, aFence, aShouldWait,
                                            res[1], res[2]),
                   3, aCmdBuffer, aFence, aShouldWait)

\* the device finishes the execution of a pending command buffer
DeviceCompletes ==
    /\ status = "running"
    /\ \E c \in DOMAIN cmds :
          /\ cmds[c].state = "pending"
          /\ cmds' = [cmds EXCEPT ![c].state = "invalid"]
    /\ UNCHANGED <<livePools, deadPools, hazards, mCommandPool, mCmdPoolInternal, calls,
                   submission, ret, status, ndebug, ubCrashes, outstanding, cycle,
                   scoreVars, selectVars, mergeVars>>

\* any order of begin and finish calls
Next == Begin \/ Finish \/ Finish3 \/ DeviceCompletes

Spec == InitClosure /\ [][Next]_vars

\* the two-phase protocol: begin is called only when no handle is outstanding
BeginWhenIdle == outstanding = {} /\ Begin

NextCycles == BeginWhenIdle \/ Finish \/ Finish3 \/ DeviceCompletes

SpecCycles == InitClosure /\ [][NextCycles]_vars

(***************************************************************************)
(* Properties of the closure.                                              *)
(***************************************************************************)
\* the positions of the calls of api in a log
CallsOf(log, api) == { k \in 1..Len(log) : log[k].api = api }

\* finish has just returned for a handle whose begin got no pool from the caller
FinishedInternal ==
    ret.op = "finish" /\ cycle[ret.cmd].aCommandPool = VK_NULL_HANDLE

\* finish has just returned for a handle whose begin got a pool from the caller
FinishedExternal ==
    ret.op = "finish" /\ cycle[ret.cmd].aCommandPool # VK_NULL_HANDLE

\* C4: in a sequence of begin/finish cycles, when finish returns for a handle begun
\* without an external pool, the pool that begin created has been destroyed, the
\* closure holds no pool handle and its "internally created" flag is false.
C4_InternalCycleBackToIdle ==
    FinishedInternal =>
        /\ cycle[ret.cmd].created # VK_NULL_HANDLE
        /\ cycle[ret.cmd].created \notin livePools
        /\ cycle[ret.cmd].created \in deadPools
        /\ mCommandPool = VK_NULL_HANDLE
        /\ mCmdPoolInternal = FALSE

\* the second of two cycles without an external pool has finished
C4_Witness ==
    /\ FinishedInternal
    /\ ret.cmd = 2
    /\ cycle[1].aCommandPool = VK_NULL_HANDLE
    /\ cycle[1].created # cycle[2].created
    /\ {cycle[1].created, cycle[2].created} \subseteq deadPools

\* C5: in a sequence of begin/finish cycles, when finish returns for a handle begun
\* with an external pool, whatever the submit status, that pool still exists, the
\* closure holds no pool handle and no ownership flag, begin created no pool, and
\* finish destroyed no pool and freed nothing.
C5_ExternalPoolUntouched ==
    FinishedExternal =>
        /\ cycle[ret.cmd].aCommandPool \in livePools
        /\ cycle[ret.cmd].aCommandPool \notin deadPools
        /\ mCommandPool = VK_NULL_HANDLE
        /\ mCmdPoolInternal = FALSE
        /\ cycle[ret.cmd].created = VK_NULL_HANDLE
        /\ CallsOf(cycle[ret.cmd].calls, "vkCreateCommandPool") = {}
        /\ CallsOf(calls, "vkCreateCommandPool") = {}
        /\ CallsOf(calls, "vkDestroyCommandPool") = {}
        /\ CallsOf(calls, "vkFreeCommandBuffers") = {}

\* a cycle on the external pool whose submit failed, after an earlier cycle on it
C5_Witness ==
    /\ FinishedExternal
    /\ ret.cmd = 2
    /\ ret.value = VK_ERROR_DEVICE_LOST
    /\ cycle[1].aCommandPool = cycle[2].aCommandPool
    /\ cycle[2].aCommandPool \in livePools

\* C6: when finish returns, vkQueueSubmit was called exactly once in it,
\* _cleanupSubmit ran after the submit and before the return (the closure holds no
\* pool and no flag), and the value returned is the status of that submit.
C6_SubmitOnceThenCleanup ==
    ret.op = "finish" =>
        /\ Cardinality(CallsOf(calls, "vkQueueSubmit")) = 1
        /\ \A k \in CallsOf(calls, "vkQueueSubmit") :
              /\ calls[k].result = ret.value
              /\ calls[k].arg = ret.cmd
              /\ \E j \in CallsOf(calls, "_cleanupSubmit") : j > k /\ calls[j].arg = ret.cmd
        /\ Cardinality(CallsOf(calls, "_cleanupSubmit")) = 1
        /\ mCommandPool = VK_NULL_HANDLE
        /\ mCmdPoolInternal = FALSE

\* finish returned a failed submit status and the pool of the cycle is destroyed
C6_Witness ==
    /\ FinishedInternal
    /\ ret.value = VK_ERROR_DEVICE_LOST
    /\ cycle[ret.cmd].created \in deadPools
    /\ CallsOf(calls, "vkDestroyCommandPool") # {}

\* C7: when finish returns, it has waited for the queue (vkQueueWaitIdle, between
\* the submit and the cleanup) exactly when the submit succeeded, the fence is null
\* and the caller asked to wait; with a fence, or after a failed submit, it has not.
C7_WaitsIffNoFence ==
    ret.op = "finish" =>
        /\ (CallsOf(calls, "vkQueueWaitIdle") # {})
              <=> (ret.value = VK_SUCCESS /\ ret.aFence = VK_NULL_HANDLE /\ ret.aShouldWait)
        /\ \A w \in CallsOf(calls, "vkQueueWaitIdle") :
              /\ \E k \in CallsOf(calls, "vkQueueSubmit") : k < w
              /\ \A j \in CallsOf(calls, "_cleanupSubmit") : w < j
              /\ \A c \in DOMAIN cmds : cmds[c].state # "pending"

\* a successful submit with a fence and a request to wait: finish has not waited
C7_Witness ==
    /\ ret.op = "finish"
    /\ ret.value = VK_SUCCESS
    /\ ret.aFence # VK_NULL_HANDLE
    /\ ret.aShouldWait
    /\ submission.fence = ret.aFence
    /\ CallsOf(calls, "vkQueueWaitIdle") = {}

\* C11: in every run of finish, through either overload and with empty semaphore
\* lists too, the first call is vkEndCommandBuffer on the handle given; the
\* submission is built after it and vkQueueSubmit comes after both; the submission
\* built and the one submitted hold exactly that one handle.
C11_EndBeforeBuildAndSubmit ==
    /\ \A k \in CallsOf(calls, "VkSubmitInfo") \cup CallsOf(calls, "vkQueueSubmit") :
          /\ calls[1].api = "vkEndCommandBuffer"
          /\ CallsOf(calls, "vkEndCommandBuffer") = {1}
          /\ 1 < k
    /\ \A k \in CallsOf(calls, "VkSubmitInfo") :
          calls[k].arg.pCommandBuffers = <<calls[1].arg>>
    /\ \A k \in CallsOf(calls, "vkQueueSubmit") :
          /\ \E j \in CallsOf(calls, "VkSubmitInfo") : j < k
          /\ calls[k].arg = calls[1].arg
          /\ submission.pCommandBuffers = <<calls[1].arg>>
    /\ ret.op = "finish" =>
          /\ calls[1].api = "vkEndCommandBuffer"
          /\ calls[1].arg = ret.cmd
          /\ CallsOf(calls, "VkSubmitInfo") # {}
          /\ submission.pCommandBuffers = <<ret.cmd>>
          /\ ret.overload = 3 =>
                submission.pWaitSemaphores = <<>> /\ submission.pSignalSemaphores = <<>>

\* the three-argument overload has returned for the second handle: end, build, submit
C11_Witness ==
    /\ ret.op = "finish"
    /\ ret.overload = 3
    /\ ret.cmd = 2
    /\ Len(calls) >= 3
    /\ calls[1].api = "vkEndCommandBuffer"
    /\ calls[2].api = "VkSubmitInfo"
    /\ calls[3].api = "vkQueueSubmit"
    /\ submission.pCommandBuffers = <<2>>
    /\ submission.pWaitSemaphores = <<>>

\* C12: begin never goes on after a failed setup step: when vkCreateCommandPool or
\* vkAllocateCommandBuffers has not returned VK_SUCCESS, that call is the last one
\* of the run, the run has ended in an abort, and begin has returned no handle.
C12_SetupFailureIsFatal ==
    \A k \in CallsOf(calls, "vkCreateCommandPool") \cup
              CallsOf(calls, "vkAllocateCommandBuffers") :
        calls[k].result # VK_SUCCESS =>
            /\ status = "aborted"
            /\ Len(calls) = k
            /\ ret.op # "begin"

\* C14: in a sequence of begin/finish cycles, finish never frees a command buffer
\* that is still pending on the device and never destroys a pool that holds one:
\* after a successful submit of a handle begun without an external pool, the free and
\* the pool destruction come only once the submitted work has completed, with a
\* fence or without a request to wait as well.
C14_NoCleanupWhilePending ==
    /\ "free while pending" \notin hazards
    /\ "destroy while pending" \notin hazards
    /\ (FinishedInternal /\ ret.value = VK_SUCCESS) =>
          \A k \in CallsOf(calls, "vkFreeCommandBuffers") \cup
                    CallsOf(calls, "vkDestroyCommandPool") :
              \E w \in CallsOf(calls, "vkQueueWaitIdle") : w < k

\* C15: over any order of begin and finish calls on one closure, no handle is freed
\* against a pool other than the one it was allocated from, no pool is destroyed
\* twice, no pool is destroyed while a handle allocated from it has not yet been
\* passed to finish, and once every handle that begin returned has been passed to
\* finish every pool that a begin created has been destroyed.
C15_StrictOwnership ==
    /\ "free from another pool" \notin hazards
    /\ "destroy of no pool" \notin hazards
    /\ \A c \in outstanding : cmds[c].state # "freed"
    /\ (status = "running" /\ outstanding = {}) =>
          \A c \in DOMAIN cycle :
              cycle[c].created # VK_NULL_HANDLE =>
                  cycle[c].created \in deadPools /\ cycle[c].created \notin livePools

(***************************************************************************)
(* Properties of the merge.                                                *)
(***************************************************************************)
\* the bytes of blob x are the bytes of blob y followed by the bytes of blob z:
\* the sizes add up and the blobs agree wherever a run of either side starts
IsConcat(x, y, z) ==
    /\ BlobSize(x) = Add(BlobSize(y), BlobSize(z))
    /\ \A i \in RunStarts(y, Num(0, 0)) : ByteAt(x, i) = ByteAt(y, i)
    /\ \A i \in RunStarts(z, Num(0, 0)) : ByteAt(x, Add(BlobSize(y), i)) = ByteAt(z, i)
    /\ \A i \in RunStarts(x, Num(0, 0)) :
          \/ Less(i, BlobSize(y)) /\ ByteAt(x, i) = ByteAt(y, i)
          \/ \E j \in RunStarts(z, Num(0, 0)) :
                i = Add(BlobSize(y), j) /\ ByteAt(x, i) = ByteAt(z, j)

SameBytes(x, y) == IsConcat(x, y, <<>>)

\* C8: the merged entries are A's entries unchanged followed by B's entries with
\* the same constant id and size and the offset increased by A's data size; the
\* merged blob is A's bytes followed by B's bytes; the counts and sizes add up.
C8_MergeShiftsOffsets ==
    mergePc = "returned" =>
        /\ Len(merged.first) = Len(a.pMapEntries) + Len(b.pMapEntries)
        /\ out.mapEntryCount = Len(a.pMapEntries) + Len(b.pMapEntries)
        /\ \A i \in 1..Len(a.pMapEntries) : merged.first[i] = a.pMapEntries[i]
        /\ \A j \in 1..Len(b.pMapEntries) :
              LET e == merged.first[Len(a.pMapEntries) + j] IN
              /\ e.constantID = b.pMapEntries[j].constantID
              /\ e.size = b.pMapEntries[j].size
              /\ e.offset = Add(b.pMapEntries[j].offset, BlobSize(a.pData))
        /\ IsConcat(merged.second, a.pData, b.pData)
        /\ out.dataSize = Add(BlobSize(a.pData), BlobSize(b.pData))

\* C9: when A is the empty table the merged table is B, and when B is the empty
\* table the merged table is A: the same entries in the same order, the same bytes.
C9_EmptyIsNeutral ==
    mergePc = "returned" =>
        /\ a = EmptyTable =>
              /\ merged.first = b.pMapEntries
              /\ SameBytes(merged.second, b.pData)
              /\ out = OutInfo([first |-> b.pMapEntries, second |-> b.pData])
        /\ b = EmptyTable =>
              /\ merged.first = a.pMapEntries
              /\ SameBytes(merged.second, a.pData)
              /\ out = OutInfo([first |-> a.pMapEntries, second |-> a.pData])

\* the empty table merged with a table of two entries over an 8-byte blob
C9_Witness ==
    /\ mergePc = "returned"
    /\ a = EmptyTable
    /\ Len(b.pMapEntries) = 2
    /\ b.pMapEntries[2].offset = Num(0, 4)
    /\ BlobSize(b.pData) = Num(0, 8)
    /\ merged.first = b.pMapEntries

\* C13: when every entry of A and of B lies within its own blob, every entry of
\* the merged table lies within the merged blob: its offset, as the 32-bit
\* arithmetic of the code leaves it, plus its size is at most the merged data size.
C13_MergedEntriesInBlob ==
    mergePc = "returned" =>
        \A k \in 1..Len(merged.first) :
            /\ InBlob(merged.first[k], merged.second)
            /\ Leq(Add(merged.first[k].offset, merged.first[k].size), out.dataSize)

\* an entry of B whose shifted offset wrapped around 2^32, behind an entry of A
C13_Witness ==
    /\ mergePc = "returned"
    /\ Len(a.pMapEntries) = 1
    /\ Len(b.pMapEntries) = 1
    /\ BlobSize(a.pData) = Num(Limb - 1, Limb - 4)
    /\ b.pMapEntries[1].offset = Num(0, 4)
    /\ merged.first[2].offset = Num(0, 0)
    /\ Less(Num(Limb, 0), BlobSize(merged.second))

(***************************************************************************)
(* Properties of scoring and selection.                                    *)
(***************************************************************************)
GraphicsCompute == BitOr(VK_QUEUE_GRAPHICS_BIT, VK_QUEUE_COMPUTE_BIT)

\* the gate as the code evaluates it
PassesGate(d) == confirm_queue_fam(d, GraphicsCompute)

\* one family that has a queue and carries every bit of the mask
SingleFamilySatisfies(d, mask) ==
    \E k \in 1..Len(d.queueFamilies) :
        /\ d.queueFamilies[k].queueCount > 0
        /\ BitAnd(d.queueFamilies[k].queueFlags, mask) = mask

ScoreOf(i) == score_physical_device(aDevices[i])

\* C1: when the list holds a device of score >= 0, select_physical_device returns a
\* device of the list whose score is the maximum over the list, and every device
\* before it in the list has a strictly smaller score (the earliest maximum wins).
C1_SelectsEarliestMaximum ==
    (selectPc = "returned" /\ \E i \in 1..Len(aDevices) : ScoreOf(i) >= 0)
        => /\ selected \in 1..Len(aDevices)
           /\ \A j \in 1..Len(aDevices) : ScoreOf(j) <= ScoreOf(selected)
           /\ \A j \in 1..(selected - 1) : ScoreOf(j) < ScoreOf(selected)

\* a list whose maximum is shared by the second and third device, after a lower first
C1_Witness ==
    /\ selectPc = "returned"
    /\ Len(aDevices) = 3
    /\ ScoreOf(1) >= 0
    /\ ScoreOf(1) < ScoreOf(2)
    /\ ScoreOf(2) = ScoreOf(3)
    /\ selected = 2

\* C2: for the empty list and for every list in which no device passes the queue
\* family gate, select_physical_device returns VK_NULL_HANDLE, never a list position.
C2_NoneFound ==
    (selectPc = "returned" /\ \A i \in 1..Len(aDevices) : ~PassesGate(aDevices[i]))
        => /\ selected = VK_NULL_HANDLE
           /\ selected \notin 1..Len(aDevices)

\* a discrete device with a graphics-only family, next to a device without queues
C2_Witness ==
    /\ selectPc = "returned"
    /\ Len(aDevices) = 2
    /\ aDevices[1].deviceType = "DISCRETE_GPU"
    /\ aDevices[1].queueFamilies = <<Fam(VK_QUEUE_GRAPHICS_BIT, 1)>>
    /\ aDevices[2].queueFamilies = <<Fam(GraphicsCompute, 0)>>
    /\ selected = VK_NULL_HANDLE

\* C3: a device's score differs from the sentinel -1 exactly when one single queue
\* family of it has a queue and carries both the graphics and the compute bit.
C3_EligibleIffSingleFamily ==
    scorePc = "returned"
        => ((score # -1) <=> SingleFamilySatisfies(aDevice, GraphicsCompute))

\* device-type rank of the specification: discrete > virtual > integrated > CPU > other
TypeRank(deviceType) ==
    CASE deviceType = "DISCRETE_GPU"   -> 4
      [] deviceType = "VIRTUAL_GPU"    -> 3
      [] deviceType = "INTEGRATED_GPU" -> 2
      [] deviceType = "CPU"            -> 1
      [] OTHER                         -> 0

\* the devices aDevice is compared with: every type and feature set, over the
\* catalogue of queue family layouts and aDevice's own layout
ProbeDevices ==
    [deviceType : DeviceTypes, features : FeatureSet,
     queueFamilies : SelectFamilyLists \cup {aDevice.queueFamilies}]

\* C10: among devices that pass the gate the score is ordered as the device-type
\* rank, strictly, and two devices of one type score the same whatever their
\* feature bits; a device that fails the gate scores -1 whatever its type.
C10_ScoreOrderedByType ==
    scorePc = "returned" =>
        /\ ~PassesGate(aDevice) => score = -1
        /\ PassesGate(aDevice) =>
              \A other \in ProbeDevices :
                  PassesGate(other) =>
                     /\ (TypeRank(other.deviceType) < TypeRank(aDevice.deviceType))
                            <=> (score_physical_device(other) < score)
                     /\ (TypeRank(other.deviceType) = TypeRank(aDevice.deviceType))
                            <=> (score_physical_device(other) = score)

\* a virtual device with a feature bit set that passes the gate
C10_Witness ==
    /\ scorePc = "returned"
    /\ aDevice.deviceType = "VIRTUAL_GPU"
    /\ aDevice.features = 1
    /\ PassesGate(aDevice)
    /\ score > score_physical_device([aDevice EXCEPT !.deviceType = "INTEGRATED_GPU",
                                                      !.features = 0])
    /\ score < score_physical_device([aDevice EXCEPT !.deviceType = "DISCRETE_GPU",
                                                      !.features = 0])

====
